---------------------------- MODULE Spec2Model ----------------------------
(***************************************************************************)
(* Model of the multi-source aggregation endpoints of KatelyaTV:           *)
(*   src/src/app/api/source/category/route.ts  (GET /api/source/category)  *)
(*   src/src/app/api/source/hot/route.ts       (GET /api/source/hot)       *)
(*                                                                         *)
(* Text is modelled as a sequence of one-character strings, so that the    *)
(* regular expression, split, trim, toLowerCase, includes and the template *)
(* strings of the code are computed character by character.                *)
(* A character outside ASCII is written as its code point, "u5168".        *)
(* An absent JSON field and an empty string are both modelled as << >>:    *)
(* every place where the code reads a field goes through a truthiness test *)
(* (||, ?., ? :) that treats undefined and "" alike.                       *)
(***************************************************************************)
EXTENDS Integers, Sequences, FiniteSets, TLC

VARIABLES
    page,       \* the client page /source: its React state, its timers and its requests in flight
    ex,         \* episode extraction harness: one playback field and what the extractor made of it
    phase,      \* position of the GET handler: "idle", "waiting" (at await Promise.allSettled), "done"
    req,        \* the request being served: endpoint, category, limit, start, configured sites
    pc,         \* per source task: "none", "fetching", "reading", "settled"
    timer,      \* per source task: the setTimeout of fetchWithTimeout: "none", "armed", "cleared", "fired"
    now,        \* milliseconds elapsed since the fan-out of the request
    keyword,    \* per source task: searchKeyword put in the search URL
    fetches,    \* per source task: number of outbound fetch calls issued
    body,       \* per source task: what response.json() delivered (ghost copy of `data`)
    videos,     \* per source task: the mapped and rejection-filtered array `videos`
    outcome,    \* per source task: how the promise settled and with what value
    allVideos,  \* GET: merged working set
    uniqueVideos, \* GET: deduplicated set (before the shuffle)
    shuffled,   \* GET: the set after sort(() => 0.5 - Math.random())
    returned,   \* the source tasks that have returned, in the order in which they returned
    response    \* GET: the JSON answer {code, message, list}

vars == <<page, ex, phase, req, pc, timer, now, keyword, fetches, body, videos,
          outcome, returned, allVideos, uniqueVideos, shuffled, response>>

aggVars == <<phase, req, pc, timer, now, keyword, fetches, body, videos,
             outcome, returned, allVideos, uniqueVideos, shuffled, response>>

-----------------------------------------------------------------------------
(* Text helpers                                                            *)

\* s.substring(a, b) for 0 <= a <= b, 0-based, end exclusive
Substring(s, a, b) == SubSeq(s, a + 1, IF b > Len(s) THEN Len(s) ELSE b)

\* TRUE iff pat occurs in s at 1-based position i
OccursAt(s, pat, i) ==
    /\ i >= 1
    /\ i + Len(pat) - 1 <= Len(s)
    /\ \A k \in 1..Len(pat) : s[i + k - 1] = pat[k]

\* s.indexOf(pat, from) as a 1-based position, 0 when there is none
RECURSIVE IndexFrom(_, _, _)
IndexFrom(s, pat, i) ==
    IF i + Len(pat) - 1 > Len(s) THEN 0
    ELSE IF OccursAt(s, pat, i) THEN i
    ELSE IndexFrom(s, pat, i + 1)

\* s.includes(pat)
Includes(s, pat) == Len(pat) = 0 \/ IndexFrom(s, pat, 1) # 0

\* the characters JavaScript's \s matches, among the characters of the model
WhiteSpace == {" ", "\t", "\n"}

\* the lower-case mapping of the letters A to Z; the other characters of the
\* model's alphabet (lower-case letters, digits, punctuation, CJK) have none
LowerCaseOf ==
    ("A" :> "a") @@ ("B" :> "b") @@ ("C" :> "c") @@ ("D" :> "d") @@ ("E" :> "e") @@ ("F" :> "f")
    @@ ("G" :> "g") @@ ("H" :> "h") @@ ("I" :> "i") @@ ("J" :> "j") @@ ("K" :> "k") @@ ("L" :> "l")
    @@ ("M" :> "m") @@ ("N" :> "n") @@ ("O" :> "o") @@ ("P" :> "p") @@ ("Q" :> "q") @@ ("R" :> "r")
    @@ ("S" :> "s") @@ ("T" :> "t") @@ ("U" :> "u") @@ ("V" :> "v") @@ ("W" :> "w") @@ ("X" :> "x")
    @@ ("Y" :> "y") @@ ("Z" :> "z")

\* String.prototype.toLowerCase on one character
LowerChar(c) == IF c \in DOMAIN LowerCaseOf THEN LowerCaseOf[c] ELSE c

toLowerCase(s) == [k \in 1..Len(s) |-> LowerChar(s[k])]


-----------------------------------------------------------------------------
(* Episode extraction: category/route.ts 71-87, hot/route.ts 92-108        *)

\* the class [^"'\s] of m3u8Regex
UrlChar(c) == c \notin ({"\"", "'"} \cup WhiteSpace)

\* the lazy run [^"'\s]+? followed by \.m3u8 : b is where the run starts, k the
\* position tried next; the value is the position of the final "8", or 0
RECURSIVE LazyRun(_, _, _)
LazyRun(s, b, k) ==
    IF k > Len(s) THEN 0
    ELSE IF k > b /\ OccursAt(s, <<".", "m", "3", "u", "8">>, k) THEN k + 4
    ELSE IF UrlChar(s[k]) THEN LazyRun(s, b, k + 1)
    ELSE 0

\* one attempt of /\$(https?:\/\/[^"'\s]+?\.m3u8)/ at position p of s: the
\* position of the last matched character, or 0 when there is no match at p
MatchEnd(s, p) ==
    IF ~OccursAt(s, <<"$", "h", "t", "t", "p">>, p) THEN 0
    ELSE LET q == IF OccursAt(s, <<"s">>, p + 5) THEN p + 6 ELSE p + 5
         IN  IF OccursAt(s, <<":", "/", "/">>, q)
             THEN LazyRun(s, q + 3, q + 3)
             ELSE 0

\* url.match(m3u8Regex) || [] with the g flag: all matches, left to right,
\* not overlapping, each the whole matched text (the "$" included)
RECURSIVE MatchFrom(_, _)
MatchFrom(s, i) ==
    IF i > Len(s) THEN << >>
    ELSE LET e == MatchEnd(s, i)
         IN  IF e # 0 THEN <<SubSeq(s, i, e)>> \o MatchFrom(s, e + 1)
             ELSE MatchFrom(s, i + 1)

m3u8Regex(url) == MatchFrom(url, 1)

\* s.split(sep) for a non-empty separator
RECURSIVE SplitFrom(_, _, _)
SplitFrom(s, sep, i) ==
    LET j == IndexFrom(s, sep, i)
    IN  IF j = 0 THEN <<SubSeq(s, i, Len(s))>>
        ELSE <<SubSeq(s, i, j - 1)>> \o SplitFrom(s, sep, j + Len(sep))

\* item.vod_play_url.split('$$$')
vod_play_url_array(field) == SplitFrom(field, <<"$", "$", "$">>, 1)

\* KeepLarger with >= for >: a later group wins a tie
KeepLargerOrEqual(matches, episodes) ==
    IF Len(matches) >= Len(episodes) THEN matches ELSE episodes

\* the body of the forEach callback: the group replaces the list kept so far
\* only when it has strictly more matches
KeepLarger(matches, episodes) ==
    IF Len(matches) > Len(episodes) THEN matches ELSE episodes

\* vod_play_url_array.forEach(...) from group k on
RECURSIVE ForEachGroup(_, _, _)
ForEachGroup(groups, k, episodes) ==
    IF k > Len(groups) THEN episodes
    ELSE ForEachGroup(groups, k + 1, KeepLarger(m3u8Regex(groups[k]), episodes))

\* Array.from(new Set(list)): first occurrences, in insertion order
RECURSIVE SetOrder(_, _)
SetOrder(list, k) ==
    IF k > Len(list) THEN << >>
    ELSE IF \E j \in 1..(k - 1) : list[j] = list[k] THEN SetOrder(list, k + 1)
    ELSE <<list[k]>> \o SetOrder(list, k + 1)

\* StripLink with substring(2) for substring(1)
StripLinkTwo(link) ==
    LET l == Substring(link, 2, Len(link))
        parenIndex == IndexFrom(l, <<"(">>, 1) - 1
    IN  IF parenIndex > 0 THEN Substring(l, 0, parenIndex) ELSE l

\* the map callback of lines 83-87: drop the "$", cut at the first "(" found at
\* an index > 0
StripLink(link) ==
    LET l == Substring(link, 1, Len(link))
        parenIndex == IndexFrom(l, <<"(">>, 1) - 1
    IN  IF parenIndex > 0 THEN Substring(l, 0, parenIndex) ELSE l

\* the episodes of one raw item, from its vod_play_url
Episodes(vod_play_url) ==
    LET matched == IF vod_play_url # << >>
                   THEN ForEachGroup(vod_play_url_array(vod_play_url), 1, << >>)
                   ELSE << >>
        uniq == SetOrder(matched, 1)
    IN  [k \in 1..Len(uniq) |-> StripLink(uniq[k])]

-----------------------------------------------------------------------------
(* Inputs of the episode extraction harness                                *)

\* number of pieces a generated playback field is made of
MaxPieces == 4

Pieces ==
    { <<"$", "h", "t", "t", "p", ":", "/", "/", "a", "/", "1", ".", "m", "3", "u", "8">>,
      <<"$", "h", "t", "t", "p", "s", ":", "/", "/", "b", "/", "2", ".", "m", "3", "u", "8">>,
      <<"$", "h", "t", "t", "p", ":", "/", "/", "a">>,
      <<".", "m", "3", "u", "8">>,
      <<"(", "c", ")">>,
      <<"$", "$", "$">>,
      <<" ">> }

RECURSIVE Concats(_)
Concats(n) ==
    IF n = 0 THEN {<< >>}
    ELSE LET shorter == Concats(n - 1)
         IN  shorter \cup {f \o p : f \in shorter, p \in Pieces}

\* the field of the scenario of the specification
ScenarioField ==
    <<"$", "h", "t", "t", "p", "s", ":", "/", "/", "a", ".", "c", "o", "m", "/", "1", ".", "m", "3", "u", "8", "(", "C", "D", "N", "1", ")">>
    \o <<"$", "$", "$">>
    \o <<"$", "h", "t", "t", "p", "s", ":", "/", "/", "a", ".", "c", "o", "m", "/", "1", ".", "m", "3", "u", "8", "(", "C", "D", "N", "1", ")">>
    \o <<"$", "h", "t", "t", "p", "s", ":", "/", "/", "a", ".", "c", "o", "m", "/", "2", ".", "m", "3", "u", "8", "(", "C", "D", "N", "2", ")">>

ScenarioEpisodes ==
    << <<"h", "t", "t", "p", "s", ":", "/", "/", "a", ".", "c", "o", "m", "/", "1", ".", "m", "3", "u", "8">>,
       <<"h", "t", "t", "p", "s", ":", "/", "/", "a", ".", "c", "o", "m", "/", "2", ".", "m", "3", "u", "8">> >>

\* two different matches that are cut to the same text at their "("
AnnotatedField ==
    <<"$", "h", "t", "t", "p", ":", "/", "/", "a", "(", "c", ")", ".", "m", "3", "u", "8">>
    \o <<"$", "h", "t", "t", "p", ":", "/", "/", "a", "(", "d", ")", ".", "m", "3", "u", "8">>

Fields == Concats(MaxPieces) \cup {ScenarioField, AnnotatedField}

\* the extractor's output written back as a playback field: every URL prefixed
\* with "$", the URLs put side by side ("one") or separated by "$$$" ("groups")
RECURSIVE Rejoin(_, _, _)
Rejoin(urls, form, k) ==
    IF k > Len(urls) THEN << >>
    ELSE (IF k > 1 /\ form = "groups" THEN <<"$", "$", "$">> ELSE << >>)
         \o <<"$">> \o urls[k] \o Rejoin(urls, form, k + 1)

ExIdle ==
    [pc |-> "idle", field |-> << >>, episodes |-> << >>,
     form |-> "none", again |-> << >>]

\* run the extractor on the field
Extract ==
    /\ ex.pc = "field"
    /\ ex' = [ex EXCEPT !.pc = "extracted", !.episodes = Episodes(ex.field)]
    /\ UNCHANGED <<page, aggVars>>

\* write the output back as a field and run the extractor on it
Rerun(form) ==
    /\ ex.pc = "extracted"
    /\ ex' = [ex EXCEPT !.pc = "rerun", !.form = form,
                        !.again = Episodes(Rejoin(ex.episodes, form, 1))]
    /\ UNCHANGED <<page, aggVars>>

-----------------------------------------------------------------------------
(* Record normalisation: category/route.ts 70-101, hot/route.ts 90-122     *)
(* The fields id (a random token when vod_id is absent) and desc (made by  *)
(* cleanHtmlTags of lib/utils) are not carried: the handlers never read    *)
(* them.                                                                   *)

ALL == <<"u5168", "u90E8">>                        \* quan bu, the "all" category
UnknownTitle == <<"u672A", "u77E5", "u6807", "u9898">>  \* wei zhi biao ti
Unknown == <<"u", "n", "k", "n", "o", "w", "n">>
hotKeywords ==
    << <<"u70ED", "u95E8">>, <<"u6700", "u65B0">>, <<"u63A8", "u8350">> >>

Digits == {"0", "1", "2", "3", "4", "5", "6", "7", "8", "9"}

\* s.trim()
RECURSIVE TrimStart(_)
TrimStart(s) ==
    IF s # << >> /\ Head(s) \in WhiteSpace THEN TrimStart(Tail(s)) ELSE s

RECURSIVE TrimEnd(_)
TrimEnd(s) ==
    IF s # << >> /\ s[Len(s)] \in WhiteSpace
    THEN TrimEnd(SubSeq(s, 1, Len(s) - 1))
    ELSE s

trim(s) == TrimEnd(TrimStart(s))

\* s.replace(/\s+/g, ' '): every maximal run of white space becomes one space
RECURSIVE CollapseFrom(_, _)
CollapseFrom(s, k) ==
    IF k > Len(s) THEN << >>
    ELSE IF s[k] \in WhiteSpace
         THEN IF k > 1 /\ s[k - 1] \in WhiteSpace
              THEN CollapseFrom(s, k + 1)
              ELSE <<" ">> \o CollapseFrom(s, k + 1)
         ELSE <<s[k]>> \o CollapseFrom(s, k + 1)

\* title: item.vod_name?.trim().replace(/\s+/g, ' ') || UnknownTitle
Title(vod_name) ==
    LET t == CollapseFrom(trim(vod_name), 1)
    IN  IF t # << >> THEN t ELSE UnknownTitle

\* s.match(/\d{4}/)?.[0] || '' : the first run of four digits, or ''
RECURSIVE FourDigits(_, _)
FourDigits(s, k) ==
    IF k + 3 > Len(s) THEN << >>
    ELSE IF \A j \in k..(k + 3) : s[j] \in Digits THEN SubSeq(s, k, k + 3)
    ELSE FourDigits(s, k + 1)

\* Year with 'unknown' also when the field holds no run of four digits
YearOrUnknown(vod_year) ==
    IF FourDigits(vod_year, 1) # << >> THEN FourDigits(vod_year, 1) ELSE Unknown

\* year: item.vod_year ? item.vod_year.match(/\d{4}/)?.[0] || '' : 'unknown'
Year(vod_year) ==
    IF vod_year # << >> THEN FourDigits(vod_year, 1) ELSE Unknown

\* a field whose JSON value is an object that has no primitive value, such as
\* {"toString": 1}: it is truthy, it has no string methods, and converting it
\* to a string (a template literal) throws a TypeError
NoPrimitive == <<"{toString:1}">>

\* the object literal returned by the map callback
Normalize(item, site) ==
    [title       |-> Title(item.vod_name),
     poster      |-> item.vod_pic,
     episodes    |-> Episodes(item.vod_play_url),
     source      |-> site.key,
     source_name |-> site.name,
     class       |-> item.vod_class,
     year        |-> Year(item.vod_year),
     type_name   |-> item.type_name]

\* .filter(video => video.title && video.poster)
Valid(video) == video.title # << >> /\ video.poster # << >>

\* data.list.map(...).filter(...) from entry k on, when no entry makes the
\* callback throw: the entries are normalised and the invalid ones left out
RECURSIVE MapFrom(_, _, _)
MapFrom(list, site, k) ==
    IF k > Len(list) THEN << >>
    ELSE LET video == Normalize(list[k], site)
         IN  (IF Valid(video) THEN <<video>> ELSE << >>) \o MapFrom(list, site, k + 1)

MapItems(list, site) == MapFrom(list, site, 1)

\* MatchesCategory without the toLowerCase calls
MatchesCategoryCaseSensitive(video, category) ==
    \/ Includes(video.class, category)
    \/ Includes(video.type_name, category)
    \/ Includes(video.title, category)

\* the predicate of the category filter, lines 105-114
MatchesCategory(video, category) ==
    LET categoryLower == toLowerCase(category)
    IN  \/ Includes(toLowerCase(video.class), categoryLower)
        \/ Includes(toLowerCase(video.type_name), categoryLower)
        \/ Includes(toLowerCase(video.title), categoryLower)

\* videos.filter(...) of lines 105-114 from entry k on
RECURSIVE FilterFrom(_, _, _)
FilterFrom(list, category, k) ==
    IF k > Len(list) THEN << >>
    ELSE (IF MatchesCategory(list[k], category) THEN <<list[k]>> ELSE << >>)
         \o FilterFrom(list, category, k + 1)

\* TRUE iff the filter callback of lines 105-114 throws on some entry: the
\* class or the type name of the entry has no toLowerCase
FilterThrows(list, category) ==
    /\ category # ALL
    /\ \E k \in 1..Len(list) :
          list[k].class = NoPrimitive \/ list[k].type_name = NoPrimitive

\* what fetchCategoryVideosFromApi returns from `videos`, lines 104-117
CategoryFilter(list, category) ==
    IF category # ALL THEN FilterFrom(list, category, 1) ELSE list

-----------------------------------------------------------------------------
(* The GET handlers: category/route.ts 124-192, hot/route.ts 129-188       *)

\* setTimeout(() => controller.abort(), 8000)
Timeout == 8000

\* apiSites.slice(0, 3) of the hot endpoint
HotSites == 3

\* a JavaScript number that is an integer or NaN
NaN == [nan |-> TRUE, n |-> 0]
Num(n) == [nan |-> FALSE, n |-> n]
Plus(a, b) == IF a.nan \/ b.nan THEN NaN ELSE Num(a.n + b.n)

Min(a, b) == IF a < b THEN a ELSE b
Max(a, b) == IF a > b THEN a ELSE b

DigitValue(c) ==
    CASE c = "0" -> 0 [] c = "1" -> 1 [] c = "2" -> 2 [] c = "3" -> 3
      [] c = "4" -> 4 [] c = "5" -> 5 [] c = "6" -> 6 [] c = "7" -> 7
      [] c = "8" -> 8 [] c = "9" -> 9

\* the value of the longest prefix of decimal digits of s, read after acc
RECURSIVE DigitsValue(_, _)
DigitsValue(s, acc) ==
    IF s # << >> /\ Head(s) \in Digits
    THEN DigitsValue(Tail(s), 10 * acc + DigitValue(Head(s)))
    ELSE acc

\* parseInt(s) in radix 10: leading white space, a sign, then digits; NaN when
\* no digit follows (hexadecimal prefixes are not among the model's inputs)
parseInt(s) ==
    LET t == TrimStart(s)
        signed == t # << >> /\ Head(t) \in {"-", "+"}
        u == IF signed THEN Tail(t) ELSE t
    IN  IF u = << >> \/ Head(u) \notin Digits THEN NaN
        ELSE IF signed /\ Head(t) = "-" THEN Num(0 - DigitsValue(u, 0))
        ELSE Num(DigitsValue(u, 0))

\* searchParams.get(name) || fallback
OrDefault(param, fallback) == IF param # << >> THEN param ELSE fallback

\* one bound of Array.prototype.slice: NaN counts as 0, a negative bound is
\* taken from the end, and the result is clamped to 0..len
SliceBound(x, len) ==
    LET rel == IF x.nan THEN 0 ELSE x.n
    IN  IF rel < 0 THEN Max(len + rel, 0) ELSE Min(rel, len)

\* list.slice(start, end)
slice(list, start, end) ==
    SubSeq(list, SliceBound(start, Len(list)) + 1, SliceBound(end, Len(list)))

\* categoryKey without toLowerCase
categoryKeyCaseSensitive(video) ==
    video.title \o <<"-">> \o video.year \o <<"-">> \o video.source

\* the dedup key of the category endpoint: title, year and source
categoryKey(video) ==
    toLowerCase(video.title) \o <<"-">> \o video.year \o <<"-">> \o video.source

\* hotKey with the source in the place of the class
hotKeyBySource(video) ==
    toLowerCase(video.title) \o <<"-">> \o video.year \o <<"-">> \o video.source

\* the dedup key of the hot endpoint: title, year and class
hotKey(video) ==
    toLowerCase(video.title) \o <<"-">> \o video.year \o <<"-">> \o video.class

KeyOf(endpoint, video) ==
    IF endpoint = "hot" THEN hotKey(video) ELSE categoryKey(video)

\* KeyThrows of a handler that also fails as a whole when the task of a source
\* failed, as Promise.all over tasks that rethrow would
KeyThrowsOrTaskFailed(list, endpoint) ==
    \/ /\ endpoint = "hot"
       /\ \E k \in 1..Len(list) : list[k].class = NoPrimitive
    \/ \E i \in 1..Len(outcome) :
          outcome[i].why \in {"network", "timeout", "http", "json"}

\* TRUE iff building the dedup keys throws: the template literal of the hot
\* endpoint converts video.class to a string
KeyThrows(list, endpoint) ==
    /\ endpoint = "hot"
    /\ \E k \in 1..Len(list) : list[k].class = NoPrimitive

\* the message of the TypeError of a failed conversion to a string
CannotConvert ==
    <<"C", "a", "n", "n", "o", "t", " ", "c", "o", "n", "v", "e", "r", "t", " ",
      "o", "b", "j", "e", "c", "t", " ", "t", "o", " ",
      "p", "r", "i", "m", "i", "t", "i", "v", "e", " ", "v", "a", "l", "u", "e">>

\* Array.from(new Map(list.map(v => [key(v), v])).values()): a key keeps the
\* place of its first entry and the value of its last entry
MapValues(list, endpoint) ==
    LET keys == SetOrder([k \in 1..Len(list) |-> KeyOf(endpoint, list[k])], 1)
        LastWith(key) ==
            CHOOSE k \in 1..Len(list) :
                /\ KeyOf(endpoint, list[k]) = key
                /\ \A j \in (k + 1)..Len(list) : KeyOf(endpoint, list[j]) # key
    IN  [j \in 1..Len(keys) |-> list[LastWith(keys[j])]]

\* the orders sort(() => 0.5 - Math.random()) can leave n elements in
SortOrders(n) ==
    {p \in [1..n -> 1..n] : \A a, b \in 1..n : a # b => p[a] # p[b]}

\* Queried without the slice of the hot endpoint
QueriedAll(endpoint, apiSites) == apiSites

\* the sites a request queries
Queried(endpoint, apiSites) ==
    IF endpoint = "hot"
    THEN SubSeq(apiSites, 1, Min(HotSites, Len(apiSites)))
    ELSE apiSites

\* Merge that gives up as soon as one result is empty
RECURSIVE MergeUntilEmpty(_, _)
MergeUntilEmpty(results, k) ==
    IF k > Len(results) \/ results[k].value = << >> THEN << >>
    ELSE results[k].value \o MergeUntilEmpty(results, k + 1)

\* Merge that takes the values in the order in which the tasks returned
RECURSIVE MergeAsReturned(_, _)
MergeAsReturned(results, k) ==
    IF k > Len(returned) THEN << >>
    ELSE (IF results[returned[k]].status = "fulfilled"
          THEN results[returned[k]].value ELSE << >>)
         \o MergeAsReturned(results, k + 1)

\* results.forEach(...): the values of the fulfilled promises, in site order
RECURSIVE Merge(_, _)
Merge(results, k) ==
    IF k > Len(results) THEN << >>
    ELSE (IF results[k].status = "fulfilled" THEN results[k].value ELSE << >>)
         \o Merge(results, k + 1)

\* allSettled resuming as soon as one promise is settled
anySettled(pcs) == \E i \in 1..Len(pcs) : pcs[i] = "settled"

\* await Promise.allSettled(promises) resumes when no promise is pending
allSettled(pcs) == \A i \in 1..Len(pcs) : pcs[i] = "settled"

MsgOk == <<"u83B7", "u53D6", "u6210", "u529F">>     \* huo qu cheng gong
\* zan wu ke yong shi pin yuan
MsgNoSites == <<"u6682", "u65E0", "u53EF", "u7528", "u89C6", "u9891", "u6E90">>
\* huo qu shi pin shi bai / huo qu re men shi pin shi bai, before ": " and the
\* message of the error
MsgFailed(endpoint) ==
    IF endpoint = "hot"
    THEN <<"u83B7", "u53D6", "u70ED", "u95E8", "u89C6", "u9891", "u5931", "u8D25">>
    ELSE <<"u83B7", "u53D6", "u89C6", "u9891", "u5931", "u8D25">>

\* NoSites with the early return left out
NoSitesSkipped(apiSites) == FALSE

\* apiSites.length === 0
NoSites(apiSites) == Len(apiSites) = 0

Pending == [status |-> "pending", value |-> << >>, why |-> "pending"]
Fulfilled(value, why) == [status |-> "fulfilled", value |-> value, why |-> why]

NoReq ==
    [endpoint |-> "none", category |-> << >>, pageLimit |-> NaN,
     pageStart |-> NaN, apiSites |-> << >>, configError |-> << >>]
NoBody == [kind |-> "none", list |-> << >>]
NoResponse == [code |-> 0, message |-> << >>, list |-> << >>]

AggIdle ==
    /\ phase = "idle"
    /\ req = NoReq
    /\ pc = << >>
    /\ timer = << >>
    /\ now = 0
    /\ keyword = << >>
    /\ fetches = << >>
    /\ body = << >>
    /\ videos = << >>
    /\ outcome = << >>
    /\ returned = << >>
    /\ allVideos = << >>
    /\ uniqueVideos = << >>
    /\ shuffled = << >>
    /\ response = NoResponse

-----------------------------------------------------------------------------
(* Actions                                                                 *)

\* GET up to `await Promise.allSettled`: the query is parsed, the site list is
\* read, and every queried site's task runs to its first await, the fetch.
\* r is the request and what getAvailableApiSites does for it; rnd[i] is the
\* index Math.floor(Math.random() * 3) draws in task i.
Request(r, rnd) ==
    LET category == OrDefault(r.category, ALL)
        fallback == IF r.endpoint = "hot" THEN <<"2", "0">> ELSE <<"2", "5">>
        queried == Queried(r.endpoint, r.apiSites)
        n == Len(queried)
        parsed == [endpoint  |-> r.endpoint,
                   category  |-> IF r.endpoint = "hot" THEN ALL ELSE category,
                   pageLimit |-> parseInt(OrDefault(r.limit, fallback)),
                   pageStart |-> parseInt(OrDefault(r.start, <<"0">>)),
                   apiSites  |-> r.apiSites,
                   configError |-> r.configError]
    IN
    /\ phase = "idle"
    /\ req' = parsed
    /\ now' = 0
    /\ allVideos' = << >>
    /\ uniqueVideos' = << >>
    /\ shuffled' = << >>
    /\ body' = [i \in 1..n |-> NoBody]
    /\ videos' = [i \in 1..n |-> << >>]
    /\ outcome' = [i \in 1..n |-> Pending]
    /\ returned' = << >>
    /\ IF r.configError # << >>
       THEN \* getAvailableApiSites rejects: the catch block of GET answers
            /\ phase' = "done"
            /\ response' = [code |-> 500,
                            message |-> MsgFailed(r.endpoint) \o <<":", " ">>
                                           \o r.configError,
                            list |-> << >>]
            /\ pc' = << >> /\ timer' = << >> /\ keyword' = << >> /\ fetches' = << >>
       ELSE IF NoSites(r.apiSites)
       THEN /\ phase' = "done"
            /\ response' = [code |-> 200, message |-> MsgNoSites, list |-> << >>]
            /\ pc' = << >> /\ timer' = << >> /\ keyword' = << >> /\ fetches' = << >>
       ELSE /\ phase' = "waiting"
            /\ response' = NoResponse
            /\ pc' = [i \in 1..n |-> "fetching"]
            /\ timer' = [i \in 1..n |-> "armed"]
            /\ fetches' = [i \in 1..n |-> 1]
            /\ keyword' = [i \in 1..n |->
                             IF r.endpoint = "hot" \/ category = ALL
                             THEN hotKeywords[rnd[i]]
                             ELSE category]
    /\ UNCHANGED <<page, ex>>

\* a task leaves its function: its locals are gone, its promise is fulfilled
Settle(i, value, why) ==
    /\ pc' = [pc EXCEPT ![i] = "settled"]
    /\ keyword' = [keyword EXCEPT ![i] = << >>]
    /\ outcome' = [outcome EXCEPT ![i] = Fulfilled(value, why)]
    /\ returned' = Append(returned, i)

\* FetchFails with one more attempt: after the first rejection the task
\* fetches again, with a new timer
FetchFailsRetry(i) ==
    /\ i \in 1..Len(pc)
    /\ pc[i] = "fetching"
    /\ IF fetches[i] < 2
       THEN /\ fetches' = [fetches EXCEPT ![i] = @ + 1]
            /\ timer' = [timer EXCEPT ![i] = "armed"]
            /\ UNCHANGED <<pc, keyword, outcome, returned>>
       ELSE /\ timer' = [timer EXCEPT ![i] = "cleared"]
            /\ Settle(i, << >>, "network")
            /\ UNCHANGED fetches
    /\ UNCHANGED <<page, ex, phase, req, now, body, videos, allVideos,
                   uniqueVideos, shuffled, response>>

\* fetch rejects (network error): fetchWithTimeout clears the timer and
\* rethrows, the catch of the task returns []
FetchFails(i) ==
    /\ i \in 1..Len(pc)
    /\ pc[i] = "fetching"
    /\ timer' = [timer EXCEPT ![i] = "cleared"]
    /\ Settle(i, << >>, "network")
    /\ UNCHANGED <<page, ex, phase, req, now, fetches, body, videos, allVideos,
                   uniqueVideos, shuffled, response>>

\* the timer callback runs: controller.abort() makes the pending fetch reject,
\* the catch of the task returns []
TimerFires(i) ==
    /\ i \in 1..Len(pc)
    /\ timer[i] = "armed"
    /\ now >= Timeout
    /\ timer' = [timer EXCEPT ![i] = "fired"]
    /\ Settle(i, << >>, "timeout")
    /\ UNCHANGED <<page, ex, phase, req, now, fetches, body, videos, allVideos,
                   uniqueVideos, shuffled, response>>

\* fetch resolves with the response headers: the timer is cleared; a status
\* outside 2xx returns [], otherwise the task goes on to await response.json()
HeadersArrive(i, ok) ==
    /\ i \in 1..Len(pc)
    /\ pc[i] = "fetching"
    /\ timer' = [timer EXCEPT ![i] = "cleared"]
    /\ IF ok
       THEN /\ pc' = [pc EXCEPT ![i] = "reading"]
            /\ UNCHANGED <<keyword, outcome, returned>>
       ELSE Settle(i, << >>, "http")
    /\ UNCHANGED <<page, ex, phase, req, now, fetches, body, videos, allVideos,
                   uniqueVideos, shuffled, response>>

\* response.json() settles with data: the rest of the task runs to its return
BodyArrives(i, data) ==
    LET site == Queried(req.endpoint, req.apiSites)[i]
        mapped == MapItems(data.list, site)
        mapThrew == \E k \in 1..Len(data.list) : data.list[k].odd
        filterThrew == /\ req.endpoint # "hot"
                       /\ FilterThrows(mapped, req.category)
        result == IF req.endpoint = "hot" THEN mapped
                  ELSE CategoryFilter(mapped, req.category)
    IN
    /\ i \in 1..Len(pc)
    /\ pc[i] = "reading"
    /\ body' = [body EXCEPT ![i] = data]
    /\ IF data.kind = "malformed"
       THEN /\ Settle(i, << >>, "json")
            /\ UNCHANGED videos
       ELSE IF data.kind # "array" \/ Len(data.list) = 0
       THEN /\ Settle(i, << >>, "nolist")
            /\ UNCHANGED videos
       ELSE IF mapThrew
       THEN /\ Settle(i, << >>, "typeerror")
            /\ UNCHANGED videos
       ELSE IF filterThrew
       THEN /\ Settle(i, << >>, "typeerror")
            /\ videos' = [videos EXCEPT ![i] = mapped]
       ELSE /\ Settle(i, result, "ok")
            /\ videos' = [videos EXCEPT ![i] = mapped]
    /\ UNCHANGED <<page, ex, phase, req, timer, now, fetches, allVideos,
                   uniqueVideos, shuffled, response>>

\* number of clock ticks, of Timeout milliseconds each, a request is followed for
MaxTicks == 2

\* time passes; a timer that is due runs before any later time is reached
Tick ==
    /\ phase = "waiting"
    /\ now < MaxTicks * Timeout
    /\ \A i \in 1..Len(timer) : timer[i] = "armed" => now < Timeout
    /\ now' = now + Timeout
    /\ UNCHANGED <<page, ex, phase, req, pc, timer, keyword, fetches, body, videos,
                   outcome, returned, allVideos, uniqueVideos, shuffled, response>>

\* GET after `await Promise.allSettled`: merge, dedup, shuffle, paginate,
\* answer; when the dedup throws, the catch block of GET answers. order is the
\* permutation the random sort leaves.
Respond(order) ==
    LET merged == Merge(outcome, 1)
        unique == MapValues(merged, req.endpoint)
        sorted == [k \in 1..Len(unique) |-> unique[order[k]]]
        paginatedVideos ==
            slice(sorted, req.pageStart, Plus(req.pageStart, req.pageLimit))
    IN
    /\ phase = "waiting"
    /\ allSettled(pc)
    /\ order \in SortOrders(Len(unique))
    /\ allVideos' = merged
    /\ IF KeyThrows(merged, req.endpoint)
       THEN /\ uniqueVideos' = << >>
            /\ shuffled' = << >>
            /\ response' = [code |-> 500,
                            message |-> MsgFailed(req.endpoint) \o <<":", " ">>
                                           \o CannotConvert,
                            list |-> << >>]
       ELSE /\ uniqueVideos' = unique
            /\ shuffled' = sorted
            /\ response' = [code |-> 200, message |-> MsgOk,
                            list |-> paginatedVideos]
    /\ phase' = "done"
    /\ UNCHANGED <<page, ex, req, pc, timer, now, keyword, fetches, body, videos,
                   outcome, returned>>

-----------------------------------------------------------------------------
(* The client page: src/app/source/page.tsx                                *)
(* A state update made in a timer callback, in the callback of the         *)
(* observer or after an await is only queued. The render that applies the  *)
(* queue (Render) and the effects of that render (Effects) are steps of    *)
(* their own, and other callbacks may run before each of them; until the   *)
(* effects have run, the observer and the timers are those of the previous *)
(* effects. The render of a click, with the effects still pending and its  *)
(* own, follows the handler at once. The updates an effect makes are       *)
(* queued for the next render.                                             *)

\* fetchSourceVideos(category, pageStart, pageLimit = 25)
PageSize == 25

\* category changes a page is followed for, callbacks of the observer after
\* which the user scrolls no further, and requests in flight beyond which
\* the 100 ms timer does not fire before an answer arrives
MaxChanges == 1
MaxScrolls == 2
MaxInflight == 2

\* the component before its first render: the initial values of useState and
\* useRef. queue holds the state updates that no render has applied yet,
\* pending the dependencies of the render before the last one while the
\* effects of the last one have not run, observer whether the IntersectionObserver of
\* the last effects is connected,
\* debounceTimeout the category of the loadInitialData the pending timer
\* will call, inflight the calls of fetchSourceVideos that have not
\* returned. epoch, firstLoaded and issued are history: the number of
\* category changes, whether the answer for offset 0 of the present selection
\* has arrived, the requests sent so far and the callbacks of the observer.
Unmounted ==
    [mounted |-> FALSE, videos |-> << >>, loading |-> FALSE, currentPage |-> 0,
     hasMore |-> TRUE, isLoadingMore |-> FALSE, selectorsReady |-> FALSE,
     categorySelection |-> ALL, queue |-> << >>, pending |-> << >>,
     observer |-> FALSE, readyTimer |-> FALSE,
     debounceTimeout |-> << >>, inflight |-> << >>, epoch |-> 0,
     firstLoaded |-> FALSE, issued |-> << >>, scrolls |-> 0]

\* the state updates: setX(value), setCurrentPage((prev) => prev + 1) and
\* setVideos((prev) => [...prev, ...list])
Set(hook, value) == [hook |-> hook, op |-> "set", arg |-> value]
Increment == [hook |-> "currentPage", op |-> "inc", arg |-> 1]
Extend(list) == [hook |-> "videos", op |-> "append", arg |-> list]

\* the state after the updates of q, applied in the order they were made
RECURSIVE Reduce(_, _)
Reduce(p, q) ==
    IF q = << >> THEN p
    ELSE LET u == Head(q)
         IN  Reduce(CASE u.op = "set" -> [p EXCEPT ![u.hook] = u.arg]
                      [] u.op = "inc" -> [p EXCEPT !.currentPage = @ + u.arg]
                      [] u.op = "append" -> [p EXCEPT !.videos = @ \o u.arg],
                    Tail(q))

\* a call of fetchSourceVideos made in state p
Call(kind, category, start, p) ==
    [kind |-> kind, category |-> category, start |-> start, epoch |-> p.epoch]

\* the history entry of a call: what the page was like when it was made
Issue(call, p) ==
    [kind |-> call.kind, category |-> call.category, start |-> call.start,
     epoch |-> call.epoch, firstLoaded |-> p.firstLoaded, hasMore |-> p.hasMore,
     busy |-> p.inflight # << >>]

\* the scroll effect of lines 141-167 gets past its two returns (the
\* sentinel is rendered when hasMore && !loading)
Observing(p) == p.mounted /\ p.hasMore /\ ~p.isLoadingMore /\ ~p.loading

\* the effects of the render that led from the rendered state old to new:
\* the effect of lines 84-110 when selectorsReady or categorySelection
\* changed, then the effect of lines 113-138 when currentPage or
\* categorySelection changed, then the scroll effect, all with the values of
\* that render; their state updates are queued
Commit(old, new) ==
    LET reset == /\ new.selectorsReady
                 /\ \/ old.selectorsReady # new.selectorsReady
                    \/ old.categorySelection # new.categorySelection
        more ==  /\ new.currentPage > 0
                 /\ \/ old.currentPage # new.currentPage
                    \/ old.categorySelection # new.categorySelection
        call == Call("more", new.categorySelection, new.currentPage * PageSize, new)
        a == IF reset
             THEN [new EXCEPT !.queue = @ \o <<Set("videos", << >>),
                                                Set("currentPage", 0),
                                                Set("hasMore", TRUE),
                                                Set("isLoadingMore", FALSE)>>,
                              !.debounceTimeout = <<new.categorySelection>>]
             ELSE new
        b == IF more
             THEN [a EXCEPT !.queue = Append(@, Set("isLoadingMore", TRUE)),
                            !.inflight = Append(@, call),
                            !.issued = Append(@, Issue(call, new))]
             ELSE a
    IN  [b EXCEPT !.observer = Observing(new), !.pending = << >>]

\* the values of rendered state p that the effects of the next render compare
\* with their own (the effect of lines 141-167 depends on p no further)
Deps(p) ==
    [selectorsReady |-> p.selectorsReady,
     categorySelection |-> p.categorySelection,
     currentPage |-> p.currentPage]

\* p after the render that applies its queue; its effects are pending
Rendered(p) ==
    [Reduce(p, p.queue) EXCEPT !.queue = << >>,
                               !.pending = <<Deps(p)>>]

\* p after the effects that are pending, if any
Flushed(p) == IF p.pending = << >> THEN p ELSE Commit(p.pending[1], p)

\* the first render and its effects: they start the 50 ms timer of lines
\* 53-59 and connect the observer
Mount ==
    /\ ~page.mounted
    /\ page' = [page EXCEPT !.mounted = TRUE, !.readyTimer = TRUE,
                            !.observer = TRUE]
    /\ UNCHANGED <<ex, aggVars>>

\* a render of the queued updates, after the effects of the render before
Render ==
    /\ page.queue # << >>
    /\ page.pending = << >>
    /\ page' = Rendered(page)
    /\ UNCHANGED <<ex, aggVars>>

\* the effects of the last render
Effects ==
    /\ page.pending # << >>
    /\ page' = Flushed(page)
    /\ UNCHANGED <<ex, aggVars>>

\* the 50 ms timer: setSelectorsReady(true)
SelectorsReady ==
    /\ page.readyTimer
    /\ page' = [page EXCEPT !.readyTimer = FALSE,
                            !.queue = Append(@, Set("selectorsReady", TRUE))]
    /\ UNCHANGED <<ex, aggVars>>

\* the user picks a category in the selector: the handler of the last
\* render, the effects still pending, the render of the click and its effects
handleCategoryChange(value) ==
    /\ page.mounted
    /\ page.epoch < MaxChanges
    /\ value # page.categorySelection
    /\ LET handled == [page EXCEPT
                         !.queue = @ \o <<Set("loading", TRUE),
                                          Set("categorySelection", value)>>]
           selected == [Flushed(handled) EXCEPT !.epoch = @ + 1,
                                                !.firstLoaded = FALSE]
       IN  page' = Flushed(Rendered(selected))
    /\ UNCHANGED <<ex, aggVars>>

\* the 100 ms timer: loadInitialData() up to its await
loadInitialData ==
    /\ page.debounceTimeout # << >>
    /\ Len(page.inflight) < MaxInflight
    /\ LET call == Call("initial", page.debounceTimeout[1], 0, page)
       IN  page' = [page EXCEPT !.debounceTimeout = << >>,
                                !.queue = Append(@, Set("loading", TRUE)),
                                !.inflight = Append(@, call),
                                !.issued = Append(@, Issue(call, page))]
    /\ UNCHANGED <<ex, aggVars>>

\* the callback of the IntersectionObserver with the sentinel in view: the
\* observer of the last effects is connected and the sentinel it observes
\* is still rendered
Intersect ==
    /\ page.observer
    /\ page.hasMore /\ ~page.loading
    /\ page.scrolls < MaxScrolls
    /\ page' = [page EXCEPT !.queue = Append(@, Increment), !.scrolls = @ + 1]
    /\ UNCHANGED <<ex, aggVars>>

\* s without its entry k
Without(s, k) == SubSeq(s, 1, k - 1) \o SubSeq(s, k + 1, Len(s))

\* loadInitialData after its await: fetchSourceVideos returned data
InitialDataArrives(k, data) ==
    /\ k \in 1..Len(page.inflight)
    /\ page.inflight[k].kind = "initial"
    /\ page' =
         IF data.code = 200
         THEN [page EXCEPT
                 !.inflight = Without(@, k),
                 !.queue = @ \o <<Set("videos", data.list),
                                  Set("hasMore", Len(data.list) = PageSize),
                                  Set("loading", FALSE)>>,
                 !.firstLoaded = @ \/ page.inflight[k].epoch = page.epoch]
         ELSE [page EXCEPT !.inflight = Without(@, k),
                           !.queue = Append(@, Set("loading", FALSE))]
    /\ UNCHANGED <<ex, aggVars>>

\* fetchMoreData after its await: fetchSourceVideos returned data
fetchMoreData(k, data) ==
    /\ k \in 1..Len(page.inflight)
    /\ page.inflight[k].kind = "more"
    /\ page' =
         IF data.code = 200
         THEN [page EXCEPT
                 !.inflight = Without(@, k),
                 !.queue = @ \o <<Extend(data.list),
                                  Set("hasMore", Len(data.list) = PageSize),
                                  Set("isLoadingMore", FALSE)>>]
         ELSE [page EXCEPT !.inflight = Without(@, k),
                           !.queue = Append(@, Set("isLoadingMore", FALSE))]
    /\ UNCHANGED <<ex, aggVars>>

\* what fetchSourceVideos can return for a call: the answer of the category
\* endpoint with n records, or the object of its catch block
Page(call, n) ==
    [code |-> 200,
     list |-> [k \in 1..n |->
                 [category |-> call.category, start |-> call.start, k |-> k]]]
FetchFailed == [code |-> 500, list |-> << >>]
Answers(call) == {Page(call, n) : n \in {2, PageSize}} \cup {FetchFailed}

-----------------------------------------------------------------------------
(* Inputs                                                                  *)

S1 == [key |-> <<"s", "1">>, name |-> <<"S", "1">>]
S2 == [key |-> <<"s", "2">>, name |-> <<"S", "2">>]
S3 == [key |-> <<"s", "3">>, name |-> <<"S", "3">>]
S4 == [key |-> <<"s", "4">>, name |-> <<"S", "4">>]

MOVIE == <<"u7535", "u5F71">>                          \* dian ying
DRAMA_MOVIE == <<"u5267", "u60C5", ",", "u7535", "u5F71">>  \* ju qing,dian ying
SM == <<"S", "M">>

Raw(name, pic, play, class, year, type) ==
    [vod_name |-> name, vod_pic |-> pic, vod_play_url |-> play,
     vod_class |-> class, vod_year |-> year, type_name |-> type, odd |-> FALSE]

\* a list entry on which the map callback throws a TypeError: a null entry, or a
\* vod_name, vod_year or vod_play_url that is a number
OddItem ==
    [vod_name |-> <<"x">>, vod_pic |-> <<"p">>, vod_play_url |-> << >>,
     vod_class |-> << >>, vod_year |-> << >>, type_name |-> << >>, odd |-> TRUE]

ItemSm ==
    Raw(<<"S", "m">>, <<"p">>,
        <<"$", "h", "t", "t", "p", ":", "/", "/", "a", ".", "m", "3", "u", "8">>,
        DRAMA_MOVIE, <<"2", "0", "2", "0">>, << >>)
ItemSmAgain ==
    Raw(<<" ", "s", "M", " ">>, <<"q">>, << >>,
        DRAMA_MOVIE, <<"2", "0", "2", "0", "-", "0", "5">>, << >>)
ItemNoTitle ==
    Raw(<< >>, <<"p">>, << >>, << >>, << >>, MOVIE)
ItemNoPoster ==
    Raw(<<"B">>, << >>, << >>, <<"s", "m">>, << >>, MOVIE)
ItemPlain ==
    Raw(<<"B", " ", " ", "b">>, <<"p">>, << >>, << >>, <<"n", "/", "a">>, << >>)
\* {"vod_name": "C", "vod_pic": "p", "vod_class": {"toString": 1}}
ItemOddClass ==
    Raw(<<"C">>, <<"p">>, << >>, NoPrimitive, << >>, << >>)

Malformed == [kind |-> "malformed", list |-> << >>]
NoList == [kind |-> "nolist", list |-> << >>]
NonArray == [kind |-> "nonarray", list |-> << >>]
Array(list) == [kind |-> "array", list |-> list]

Query(endpoint, category, limit, start, apiSites, configError) ==
    [endpoint |-> endpoint, category |-> category, limit |-> limit,
     start |-> start, apiSites |-> apiSites, configError |-> configError]

\* all sequences of 1..n elements of S
SeqsUpTo(S, n) == UNION {[1..k -> S] : k \in 1..n}

\* raw items the tasks of the request have received so far
RECURSIVE Received(_, _)
Received(bodies, k) ==
    IF k > Len(bodies) THEN 0
    ELSE Len(bodies[k].list) + Received(bodies, k + 1)

Draws(r) == [1..Len(Queried(r.endpoint, r.apiSites)) -> 1..3]

-----------------------------------------------------------------------------
(* Spec: failures, timing and the barrier, with small payloads             *)

\* up to three tasks per request: one to three sources for the category
\* endpoint, and a list of four for the hot endpoint
Reqs ==
    {Query("category", c, << >>, << >>, sites, << >>) :
        c \in {<< >>, MOVIE},
        sites \in {<< >>, <<S1>>, <<S1, S2>>, <<S1, S2, S3>>}}
    \cup {Query("hot", << >>, << >>, << >>, sites, << >>) :
        sites \in {<< >>, <<S1>>, <<S1, S2>>, <<S1, S2, S3, S4>>}}
    \cup {Query(e, << >>, << >>, << >>, << >>, <<"b", "o", "o", "m">>) :
            e \in {"category", "hot"}}

Bodies ==
    {Malformed, NoList, NonArray, Array(<< >>), Array(<<ItemSm>>),
     Array(<<ItemPlain, OddItem>>), Array(<<ItemNoTitle>>)}

Init == page = Unmounted /\ ex = ExIdle /\ AggIdle

Next ==
    \/ \E r \in Reqs : \E rnd \in Draws(r) : Request(r, rnd)
    \/ \E i \in 1..Len(pc) : FetchFails(i)
    \/ \E i \in 1..Len(pc) : TimerFires(i)
    \/ \E i \in 1..Len(pc) : \E ok \in BOOLEAN : HeadersArrive(i, ok)
    \/ \E i \in 1..Len(pc) : \E data \in Bodies : BodyArrives(i, data)
    \/ Tick
    \/ \E order \in SortOrders(Len(MapValues(Merge(outcome, 1), req.endpoint))) :
          Respond(order)

Spec == Init /\ [][Next]_vars

-----------------------------------------------------------------------------
(* SpecEpisodes: the episode extractor on generated playback fields        *)

InitEpisodes ==
    /\ page = Unmounted
    /\ ex \in {[ExIdle EXCEPT !.pc = "field", !.field = f] : f \in Fields}
    /\ AggIdle

NextEpisodes ==
    \/ Extract
    \/ \E form \in {"one", "groups"} : Rerun(form)

SpecEpisodes == InitEpisodes /\ [][NextEpisodes]_vars

-----------------------------------------------------------------------------
(* Properties of the episode extractor (SpecEpisodes)                      *)

\* the matches of every group of a field, group by group
GroupMatches(field) ==
    LET groups == vod_play_url_array(field)
    IN  [k \in 1..Len(groups) |-> m3u8Regex(groups[k])]

\* the matches the extractor settles on, before they are deduplicated and cut
SelectedMatches(field) ==
    IF field = << >> THEN << >>
    ELSE ForEachGroup(vod_play_url_array(field), 1, << >>)

\* the URLs of a list of matches: first occurrences, "$" and annotation removed
UrlsOf(matches) ==
    LET uniq == SetOrder(matches, 1)
    IN  [k \in 1..Len(uniq) |-> StripLink(uniq[k])]

\* C8: the episode list is made of the matches of one group of the field split
\* on "$$$": the group with the most matches, the first such group on a tie;
\* the field of the scenario gives the two URLs of the scenario, and a field
\* that is absent or has no match gives the empty sequence.
EpisodeGroupSelection ==
    ex.pc \in {"extracted", "rerun"} =>
        LET byGroup == GroupMatches(ex.field)
            G == 1..Len(byGroup)
            most == {k \in G : \A j \in G : Len(byGroup[j]) <= Len(byGroup[k])}
        IN  /\ (ex.field = << >> \/ \A k \in G : byGroup[k] = << >>)
                => ex.episodes = << >>
            /\ (ex.field # << >> /\ \E k \in G : byGroup[k] # << >>)
                => \E k \in most :
                      /\ \A j \in most : k <= j
                      /\ ex.episodes = UrlsOf(byGroup[k])
            /\ ex.field = ScenarioField => ex.episodes = ScenarioEpisodes

\* C8 witness: the scenario field was extracted; its second group, with two
\* matches, won over its first group, with one.
EpisodeGroupSelectionWitness ==
    /\ ex.pc = "extracted"
    /\ ex.field = ScenarioField
    /\ Len(GroupMatches(ex.field)) = 2
    /\ Len(GroupMatches(ex.field)[1]) = 1
    /\ Len(GroupMatches(ex.field)[2]) = 2
    /\ ex.episodes = ScenarioEpisodes

\* C9 as stated: writing the output back, as one group or as "$$$"-separated
\* groups, and extracting again gives the same sequence of URLs.
RerunReproduces ==
    ex.pc = "rerun" => ex.again = ex.episodes

\* TRUE iff no match the extractor settled on contains a "("
NothingCut(field) ==
    LET sel == SelectedMatches(field)
    IN  \A k \in 1..Len(sel) : ~Includes(sel[k], <<"(">>)

\* C9 amended: when no selected match contains "(", the output written back as
\* ONE group is extracted to the same sequence of URLs; written back as
\* "$$$"-separated groups it is extracted to its first URL alone.
RerunReproducesOneGroup ==
    (ex.pc = "rerun" /\ NothingCut(ex.field)) =>
        /\ ex.form = "one" => ex.again = ex.episodes
        /\ ex.form = "groups" => ex.again = Substring(ex.episodes, 0, 1)

\* C9 witness: an output of two URLs, none cut, written back as one group and
\* extracted again to the same two URLs.
RerunReproducesWitness ==
    /\ ex.pc = "rerun"
    /\ ex.form = "one"
    /\ NothingCut(ex.field)
    /\ Len(ex.episodes) = 2
    /\ ex.again = ex.episodes

-----------------------------------------------------------------------------
(* SpecData: what the sources return, two sites, no deadline expiring      *)

\* raw items the sources of one request return in total
MaxItems == 3

Catalog ==
    {ItemSm, ItemSmAgain, ItemNoTitle, ItemNoPoster, ItemPlain, OddItem}

DataReqs ==
    {Query(e, c, << >>, << >>, sites, << >>) :
        e \in {"category", "hot"}, c \in {<< >>, MOVIE, SM},
        sites \in {<<S1>>, <<S1, S2>>}}

\* the bodies a task can still receive: lists that keep the request within
\* MaxItems raw items, and bodies without a list
DataBodies ==
    {Malformed, NoList}
    \cup {Array(l) : l \in SeqsUpTo(Catalog, MaxItems - Received(body, 1))}

NextData ==
    \/ \E r \in DataReqs : \E rnd \in Draws(r) : Request(r, rnd)
    \/ \E i \in 1..Len(pc) : FetchFails(i)
    \/ \E i \in 1..Len(pc) : \E ok \in BOOLEAN : HeadersArrive(i, ok)
    \/ \E i \in 1..Len(pc) : \E data \in DataBodies : BodyArrives(i, data)
    \/ \E order \in SortOrders(Len(MapValues(Merge(outcome, 1), req.endpoint))) :
          Respond(order)

SpecData == Init /\ [][NextData]_vars

-----------------------------------------------------------------------------
(* Properties of the returned records (SpecData)                           *)

Tasks == 1..Len(pc)
SiteOf(i) == Queried(req.endpoint, req.apiSites)[i]

\* the request was answered from the fan-out (not from the no-site or the
\* failure branch)
Answered == phase = "done" /\ response.code = 200 /\ Len(req.apiSites) > 0

Elements(list) == {list[k] : k \in 1..Len(list)}

\* TRUE iff no two entries of list agree on Triple
NoTwoShare(list, Triple(_)) ==
    \A a, b \in 1..Len(list) : a # b => Triple(list[a]) # Triple(list[b])

FullTriple(v) == <<toLowerCase(v.title), v.year, v.source>>
TrendingTriple(v) == <<toLowerCase(v.title), v.year, v.class>>

\* C2: in every answer of the category endpoint no two records of the
\* deduplicated set, of its shuffled order or of the returned list share
\* (lower(title), year, sourceKey).
DedupKeyUniqueFull ==
    (Answered /\ req.endpoint = "category") =>
        /\ NoTwoShare(uniqueVideos, FullTriple)
        /\ NoTwoShare(shuffled, FullTriple)
        /\ NoTwoShare(response.list, FullTriple)

\* C2 witness: a category answer whose merged set held two records of one
\* source with the same year and with titles that differ in case only, and that
\* returns two or more records.
DedupKeyUniqueFullWitness ==
    /\ Answered
    /\ req.endpoint = "category"
    /\ \E a, b \in 1..Len(allVideos) :
          /\ allVideos[a].title # allVideos[b].title
          /\ FullTriple(allVideos[a]) = FullTriple(allVideos[b])
    /\ Len(response.list) >= 2

\* C3: in every answer of the hot endpoint no two retained records share
\* (lower(title), year, class), whatever sources they came from.
DedupKeyUniqueTrending ==
    (Answered /\ req.endpoint = "hot") =>
        /\ NoTwoShare(uniqueVideos, TrendingTriple)
        /\ NoTwoShare(shuffled, TrendingTriple)
        /\ NoTwoShare(response.list, TrendingTriple)

\* C3 witness: a hot answer whose merged set held records of two different
\* sources with the same lower-cased title, year and class.
DedupKeyUniqueTrendingWitness ==
    /\ Answered
    /\ req.endpoint = "hot"
    /\ \E a, b \in 1..Len(allVideos) :
          /\ allVideos[a].source # allVideos[b].source
          /\ TrendingTriple(allVideos[a]) = TrendingTriple(allVideos[b])
    /\ Len(response.list) >= 2

\* the raw items task i received
RawOf(i) == Elements(body[i].list)

\* C5: every record of an answer has a non-empty title and a non-empty poster,
\* and is the normalisation of a raw record of its source that has a title and
\* a poster; so a raw record without title or without poster is never emitted.
RejectionRule ==
    Answered =>
        \A v \in Elements(response.list) :
            /\ v.title # << >>
            /\ v.poster # << >>
            /\ \E i \in Tasks : \E x \in RawOf(i) :
                  /\ x.vod_name # << >>
                  /\ x.vod_pic # << >>
                  /\ v = Normalize(x, SiteOf(i))

\* TRUE iff label occurs in text when upper and lower case are not told apart
ContainsIgnoringCase(text, label) ==
    \E at \in 0..(Len(text) - Len(label)) :
        \A k \in 1..Len(label) : LowerChar(text[at + k]) = LowerChar(label[k])

\* C10: in an answer of the category endpoint, a record normalised from the
\* list of a source (one that passed the rejection rule) is in the merged set
\* if and only if the category is the "all" sentinel or the label occurs, case
\* ignored, in its class, its type name or its title.
CategoryFilterRule ==
    (Answered /\ req.endpoint = "category") =>
        \A i \in Tasks : outcome[i].why = "ok" =>
            \A x \in RawOf(i) :
                LET v == Normalize(x, SiteOf(i))
                IN  Valid(v) =>
                      (v \in Elements(allVideos)
                         <=> \/ req.category = ALL
                             \/ ContainsIgnoringCase(v.class, req.category)
                             \/ ContainsIgnoringCase(v.type_name, req.category)
                             \/ ContainsIgnoringCase(v.title, req.category))

\* C10 witness: category dian ying; one source returned a record whose class
\* ju qing,dian ying holds the label while its title does not, and a record
\* without the label anywhere; the first is in the merged set, the second not.
CategoryFilterRuleWitness ==
    /\ Answered
    /\ req.endpoint = "category"
    /\ req.category = MOVIE
    /\ \E i \in Tasks :
          /\ outcome[i].why = "ok"
          /\ {ItemSm, ItemPlain} \subseteq RawOf(i)
          /\ Normalize(ItemSm, SiteOf(i)) \in Elements(allVideos)
          /\ Normalize(ItemPlain, SiteOf(i)) \notin Elements(allVideos)

-----------------------------------------------------------------------------
(* Properties of the fan-out (Spec)                                        *)

TripleOf(v) ==
    IF req.endpoint = "hot" THEN TrendingTriple(v) ELSE FullTriple(v)

\* how a task ends when its source fails
Failures == {"network", "timeout", "http", "json"}

Failed(i) == outcome[i].why \in Failures
Survived(i) == outcome[i].status = "fulfilled" /\ ~Failed(i)

\* C1: when the configuration was read and has sources, whichever sources
\* fail (fetch error, timeout, status outside 2xx, malformed JSON), all of
\* them included, the request is answered with code 200; a failed source
\* contributes nothing, every returned record was produced by a surviving
\* source, and every record a surviving source produced is in the answer, as
\* itself or as the record kept for its dedup key.
PartialFailureTolerance ==
    (phase = "done" /\ Len(req.apiSites) > 0 /\ req.configError = << >>) =>
        /\ response.code = 200
        /\ \A i \in Tasks : Failed(i) => outcome[i].value = << >>
        /\ \A v \in Elements(response.list) :
              \E i \in Tasks :
                  /\ Survived(i)
                  /\ v \in Elements(outcome[i].value)
                  /\ v.source = SiteOf(i).key
        /\ \A i \in Tasks : Survived(i) =>
              \A v \in Elements(outcome[i].value) :
                  \E u \in Elements(response.list) : TripleOf(u) = TripleOf(v)

\* C1 witness: three sources were queried, two failed in different ways (one
\* by timeout), the third produced a record, and the answer is that record.
PartialFailureToleranceWitness ==
    /\ Answered
    /\ Len(pc) = 3
    /\ \E i, j, k \in Tasks :
          /\ outcome[i].why = "timeout"
          /\ outcome[j].why \in Failures \ {"timeout"}
          /\ Survived(k)
          /\ outcome[k].value # << >>
          /\ response.code = 200
          /\ response.list = outcome[k].value

\* C6: once the deadline of a source has expired the source is no longer
\* waited for: its task has settled.
BoundedWaiting ==
    \A i \in Tasks : now > Timeout => pc[i] = "settled"

RECURSIVE TotalLen(_, _)
TotalLen(results, k) ==
    IF k > Len(results) THEN 0
    ELSE Len(results[k].value) + TotalLen(results, k + 1)

\* C7: the handler leaves its await and merges only when every task of the
\* request has settled, and the merged set then holds every record of every
\* task, and nothing else.
Barrier ==
    [][(phase = "waiting" /\ phase' = "done") =>
          /\ \A i \in Tasks : pc[i] = "settled"
          /\ \A i \in Tasks : Elements(outcome[i].value) \subseteq Elements(allVideos')
          /\ Len(allVideos') = TotalLen(outcome, 1)]_vars

\* C7 witness: an answer made after two tasks that both returned records; one
\* of them settled after the other, and both are in the merged set.
BarrierWitness ==
    /\ Answered
    /\ Len(pc) = 2
    /\ \A i \in Tasks : pc[i] = "settled" /\ outcome[i].value # << >>
    /\ Len(allVideos) = TotalLen(outcome, 1)
    /\ \A i \in Tasks : Elements(outcome[i].value) \subseteq Elements(allVideos)

-----------------------------------------------------------------------------
(* SpecPage: pagination, one site                                          *)

Starts == {<< >>, <<"0">>, <<"1">>, <<"2">>, <<"3">>, <<"-", "1">>, <<"x">>}
Limits == {<< >>, <<"0">>, <<"1">>, <<"2">>, <<"-", "1">>}

PageReqs ==
    {Query(e, << >>, l, s, <<S1>>, << >>) :
        e \in {"category", "hot"}, l \in Limits, s \in Starts}

PageBodies ==
    {Array(l) : l \in SeqsUpTo({ItemSm, ItemNoTitle, ItemPlain}, MaxItems)}

NextPage ==
    \/ \E r \in PageReqs : \E rnd \in Draws(r) : Request(r, rnd)
    \/ \E i \in 1..Len(pc) : \E ok \in BOOLEAN : HeadersArrive(i, ok)
    \/ \E i \in 1..Len(pc) : \E data \in PageBodies : BodyArrives(i, data)
    \/ \E order \in SortOrders(Len(MapValues(Merge(outcome, 1), req.endpoint))) :
          Respond(order)

SpecPage == Init /\ [][NextPage]_vars

\* C4: for integers start and limit, the returned list is the part of the
\* shuffled set at the positions p with start <= p < start + limit that exist
\* (0 <= p < count), in the shuffled order; a start at or beyond the count
\* gives an empty list, with code 200.
PaginationCorrect ==
    (Answered /\ ~req.pageStart.nan /\ ~req.pageLimit.nan) =>
        LET start == req.pageStart.n
            limit == req.pageLimit.n
            lo == Max(start, 0)
            hi == Min(start + limit, Len(shuffled))
        IN  /\ response.code = 200
            /\ response.list = IF hi > lo THEN SubSeq(shuffled, lo + 1, hi) ELSE << >>
            /\ start >= Len(shuffled) => response.list = << >>

-----------------------------------------------------------------------------
(* Properties of the answers that do not come from the fan-out (Spec)      *)

\* C11: when the source list is read and is empty, either endpoint answers
\* code 200 with the no-source message and an empty list, and no task was
\* started and no fetch issued for the request.
NoSourcesConfigured ==
    /\ (req.configError = << >> /\ req.apiSites = << >>) =>
           pc = << >> /\ fetches = << >>
    /\ (phase = "done" /\ req.configError = << >> /\ req.apiSites = << >>) =>
           response = [code |-> 200, message |-> MsgNoSites, list |-> << >>]

\* C11 witness: a hot request for which the source list was empty has been
\* answered, with code 200 and without a fetch.
NoSourcesConfiguredWitness ==
    /\ phase = "done"
    /\ req.endpoint = "hot"
    /\ req.configError = << >>
    /\ req.apiSites = << >>
    /\ response.code = 200
    /\ response.list = << >>
    /\ fetches = << >>

-----------------------------------------------------------------------------
(* SpecTyped: payloads whose items or fields are not of the declared types *)

TypedCatalog == {ItemSm, ItemNoPoster, ItemPlain, OddItem, ItemOddClass}

TypedReqs ==
    {Query(e, c, << >>, << >>, sites, << >>) :
        e \in {"category", "hot"}, c \in {<< >>, MOVIE},
        sites \in {<<S1>>, <<S1, S2>>}}
    \cup {Query(e, << >>, << >>, << >>, << >>, <<"b", "o", "o", "m">>) :
            e \in {"category", "hot"}}

TypedBodies ==
    {Malformed, NoList, NonArray, Array(<< >>)}
    \cup {Array(l) : l \in SeqsUpTo(TypedCatalog, MaxItems - Received(body, 1))}

NextTyped ==
    \/ \E r \in TypedReqs : \E rnd \in Draws(r) : Request(r, rnd)
    \/ \E i \in 1..Len(pc) : FetchFails(i)
    \/ \E i \in 1..Len(pc) : TimerFires(i)
    \/ \E i \in 1..Len(pc) : \E ok \in BOOLEAN : HeadersArrive(i, ok)
    \/ \E i \in 1..Len(pc) : \E data \in TypedBodies : BodyArrives(i, data)
    \/ Tick
    \/ \E order \in SortOrders(Len(MapValues(Merge(outcome, 1), req.endpoint))) :
          Respond(order)

SpecTyped == Init /\ [][NextTyped]_vars

\* C12: a request is answered with code 500 only when the source list could
\* not be read, and then with an empty list and the message of that error;
\* whatever the sources do, a request whose source list was read is answered
\* with code 200.
InternalFailureOnly ==
    phase = "done" =>
        /\ response.code \in {200, 500}
        /\ response.code = 500 =>
              /\ req.configError # << >>
              /\ response.list = << >>
              /\ response.message =
                    MsgFailed(req.endpoint) \o <<":", " ">> \o req.configError
        /\ req.configError = << >> => response.code = 200

-----------------------------------------------------------------------------
(* Properties of the fan-out, continued (Spec)                             *)

\* the request got past the reading of a non-empty source list
FannedOut == phase \in {"waiting", "done"} /\ Len(req.apiSites) > 0

\* C13: a hot request starts min(3, number of sources) tasks and a category
\* request one task per source, each with one fetch; task i produces records
\* of the source at position i of the list only, and a hot answer holds no
\* record of a source at the fourth position or later.
TrendingFirstThree ==
    FannedOut =>
        /\ req.endpoint = "hot" =>
              /\ Len(pc) = Min(3, Len(req.apiSites))
              /\ \A v \in Elements(response.list) :
                    \A k \in 4..Len(req.apiSites) : v.source # req.apiSites[k].key
        /\ req.endpoint = "category" => Len(pc) = Len(req.apiSites)
        /\ Len(fetches) = Len(pc)
        /\ \A i \in Tasks :
              \A v \in Elements(outcome[i].value) : v.source = req.apiSites[i].key

\* C13 witness: a hot request with four sources was answered with a record;
\* three tasks ran, each returned a record, none of the fourth source.
TrendingFirstThreeWitness ==
    /\ Answered
    /\ req.endpoint = "hot"
    /\ Len(req.apiSites) = 4
    /\ Len(pc) = 3
    /\ \A i \in Tasks : outcome[i].value # << >>
    /\ response.list # << >>

-----------------------------------------------------------------------------
(* Properties of the returned records, continued (SpecData)                *)

\* the position of the first record of list with the dedup triple of v
FirstWith(list, v) ==
    CHOOSE a \in 1..Len(list) :
        /\ TripleOf(list[a]) = TripleOf(v)
        /\ \A b \in 1..(a - 1) : TripleOf(list[b]) # TripleOf(v)

\* C14: for every dedup triple of the merged set, the deduplicated set holds
\* exactly one record with it, and that record is the first of the merged set
\* with it; so records of different sources with one title and year all stay
\* in a category answer, and collapse to the first of them in a hot answer.
DedupKeepsFirstSeen ==
    Answered =>
        \A v \in Elements(allVideos) :
            /\ Cardinality({u \in 1..Len(uniqueVideos) :
                               TripleOf(uniqueVideos[u]) = TripleOf(v)}) = 1
            /\ allVideos[FirstWith(allVideos, v)] \in Elements(uniqueVideos)


\* TRUE iff the four characters of s from position k on are decimal digits
RunAt(s, k) == k + 3 <= Len(s) /\ \A j \in k..(k + 3) : s[j] \in Digits

HasRun(s) == \E k \in 1..Len(s) : RunAt(s, k)

\* the first run of four digits of a text that has one
FirstRun(s) ==
    LET k == CHOOSE a \in 1..Len(s) : RunAt(s, a) /\ \A b \in 1..(a - 1) : ~RunAt(s, b)
    IN  SubSeq(s, k, k + 3)

\* the raw items, with the site of their task, that a returned record can come
\* from
OriginsOf(v) ==
    {ix \in {<<i, x>> : i \in Tasks, x \in UNION {RawOf(j) : j \in Tasks}} :
        /\ ix[2] \in RawOf(ix[1])
        /\ ~ix[2].odd
        /\ v = Normalize(ix[2], SiteOf(ix[1]))}

\* C15 as stated: the year of a returned record is the first run of four
\* digits of the year field of its raw item, and "unknown" when that field is
\* absent or holds no such run.
YearFourDigitsOrUnknown ==
    Answered =>
        \A v \in Elements(response.list) :
            /\ OriginsOf(v) # {}
            /\ \A ix \in OriginsOf(v) :
                  IF HasRun(ix[2].vod_year)
                  THEN v.year = FirstRun(ix[2].vod_year)
                  ELSE v.year = Unknown

\* C15 amended: the year is the first run of four digits of the year field;
\* the empty string when the field is present and holds no such run; "unknown"
\* when the field is absent (or empty).
YearFourDigitsEmptyOrUnknown ==
    Answered =>
        \A v \in Elements(response.list) :
            /\ OriginsOf(v) # {}
            /\ \A ix \in OriginsOf(v) :
                  IF HasRun(ix[2].vod_year)
                  THEN v.year = FirstRun(ix[2].vod_year)
                  ELSE IF ix[2].vod_year # << >>
                  THEN v.year = << >>
                  ELSE v.year = Unknown

\* C15 witness: one answer with a record whose year 2020 was cut out of
\* "2020-05", a record whose year field "n/a" gave the empty string, and a
\* record without year field, whose year is "unknown".
YearWitness ==
    /\ Answered
    /\ \E a, b, c \in Elements(response.list) :
          /\ a.year = <<"2", "0", "2", "0">>
          /\ \E ix \in OriginsOf(a) : ix[2].vod_year = <<"2", "0", "2", "0", "-", "0", "5">>
          /\ b.year = << >>
          /\ \E ix \in OriginsOf(b) : ix[2].vod_year = <<"n", "/", "a">>
          /\ c.year = Unknown
          /\ \E ix \in OriginsOf(c) : ix[2].vod_year = << >>

-----------------------------------------------------------------------------
(* Properties of the queries sent to the sources (Spec)                    *)

\* the tasks that still hold their keyword: those that have not returned
Querying == {i \in Tasks : pc[i] # "settled"}

\* C16: all tasks of a request query their source with one and the same
\* keyword; it is one of the three generic keywords when the category is the
\* "all" sentinel (always so for the hot endpoint), and the category label
\* itself otherwise.
OnePlanPerRequest ==
    FannedOut =>
        /\ \A i, j \in Querying : keyword[i] = keyword[j]
        /\ \A i \in Querying :
              IF req.category = ALL
              THEN \E k \in 1..Len(hotKeywords) : keyword[i] = hotKeywords[k]
              ELSE keyword[i] = req.category


\* how a task ends when its fetch fails or times out
FetchFailures == {"network", "timeout", "http"}

\* C17: every task of a request issues exactly one fetch, also when that fetch
\* has timed out or failed; the source of such a task has no record in the
\* merged set or in the answer.
NoRetries ==
    FannedOut =>
        \A i \in Tasks :
            /\ fetches[i] = 1
            /\ outcome[i].why \in FetchFailures =>
                  /\ pc[i] = "settled"
                  /\ outcome[i].value = << >>
                  /\ \A v \in Elements(allVideos) \cup Elements(response.list) :
                        v.source # req.apiSites[i].key

\* C17 witness: an answered request in which one source timed out and another
\* failed, each after its one fetch, while a third returned a record.
NoRetriesWitness ==
    /\ Answered
    /\ \E i, j, k \in Tasks :
          /\ outcome[i].why = "timeout" /\ fetches[i] = 1
          /\ outcome[j].why = "network" /\ fetches[j] = 1
          /\ outcome[k].value # << >>
    /\ response.list # << >>

-----------------------------------------------------------------------------
(* Properties of the episode extractor, continued (SpecEpisodes)           *)

\* C18: the episode list holds no URL twice, and it is the list of the first
\* occurrences of the URLs the selected matches give once their "$" and their
\* annotation are removed.
EpisodesDistinct ==
    ex.pc \in {"extracted", "rerun"} =>
        LET sel == SelectedMatches(ex.field)
            urls == [k \in 1..Len(sel) |-> StripLink(sel[k])]
        IN  /\ \A a, b \in 1..Len(ex.episodes) :
                  a # b => ex.episodes[a] # ex.episodes[b]
            /\ ex.episodes = SetOrder(urls, 1)

-----------------------------------------------------------------------------
(* Properties of one source task (SpecTyped)                               *)

\* the entries of a list on which the normalisation can be carried out
WellFormed(list) == SelectSeq(list, LAMBDA x : ~x.odd)

\* the records a task is to return for a list: the normalised entries that
\* have a title and a poster, in the order of the list, and of these the ones
\* the category endpoint keeps for its category
Expected(list, i) ==
    LET records == MapItems(WellFormed(list), req.apiSites[i])
    IN  IF req.endpoint = "hot" THEN records
        ELSE CategoryFilter(records, req.category)

\* C19: a task always returns, never throws; it returns the empty sequence
\* when its fetch fails or times out, when the status is not 2xx, when the
\* body is not JSON and when the list is absent, not an array or empty; for
\* any other body it returns the records of the list that pass the rejection
\* rule, in the order of the list, whatever the other entries of the list are.
ExecutorTotal ==
    \A i \in Tasks : pc[i] = "settled" =>
        /\ outcome[i].status = "fulfilled"
        /\ IF outcome[i].why \in FetchFailures \cup {"json"}
           THEN outcome[i].value = << >>
           ELSE IF body[i].kind # "array" \/ body[i].list = << >>
           THEN outcome[i].value = << >>
           ELSE outcome[i].value = Expected(body[i].list, i)

-----------------------------------------------------------------------------
(* Properties of the merge under all orders of return (SpecData)           *)

\* the number of records returned by the tasks before task i in site order
Before(i) == TotalLen(SubSeq(outcome, 1, i - 1), 1)

\* the positions of list that are the first with their dedup triple
Firsts(list) ==
    {a \in 1..Len(list) :
        \A b \in 1..(a - 1) : TripleOf(list[b]) # TripleOf(list[a])}

\* C20: whatever the order in which the tasks returned, the merged set is the
\* records of the first source in their order, then those of the second, and
\* so on; and the deduplicated set has one record for each dedup triple of
\* the merged set, in the order in which the triples first occur there, the
\* record being the one the merged set holds last for the triple. Both are
\* fixed by the results and the order of the sources alone.
CompletionOrderIndependence ==
    Answered =>
        /\ Len(allVideos) = TotalLen(outcome, 1)
        /\ \A i \in Tasks : \A k \in 1..Len(outcome[i].value) :
              allVideos[Before(i) + k] = outcome[i].value[k]
        /\ Len(uniqueVideos) = Cardinality(Firsts(allVideos))
        /\ \A u \in 1..Len(uniqueVideos) :
              \E a \in Firsts(allVideos) :
                  /\ Cardinality({b \in Firsts(allVideos) : b < a}) = u - 1
                  /\ TripleOf(uniqueVideos[u]) = TripleOf(allVideos[a])
                  /\ \E c \in a..Len(allVideos) :
                        /\ uniqueVideos[u] = allVideos[c]
                        /\ \A d \in (c + 1)..Len(allVideos) :
                              TripleOf(allVideos[d]) # TripleOf(allVideos[a])

\* C20 witness: two sources both returned records, the second source
\* returned before the first, and the merged set starts with the records of
\* the first source.
CompletionOrderIndependenceWitness ==
    /\ Answered
    /\ Len(pc) = 2
    /\ returned = <<2, 1>>
    /\ outcome[1].value # << >>
    /\ outcome[2].value # << >>
    /\ allVideos = outcome[1].value \o outcome[2].value
    /\ Len(uniqueVideos) >= 2

-----------------------------------------------------------------------------
(* SpecClient: the client page and the answers to its requests             *)

Categories == {ALL, MOVIE}

NextClient ==
    \/ Mount
    \/ Render
    \/ Effects
    \/ SelectorsReady
    \/ \E value \in Categories : handleCategoryChange(value)
    \/ loadInitialData
    \/ Intersect
    \/ \E k \in 1..Len(page.inflight) :
          \E data \in Answers(page.inflight[k]) : InitialDataArrives(k, data)
    \/ \E k \in 1..Len(page.inflight) :
          \E data \in Answers(page.inflight[k]) : fetchMoreData(k, data)

SpecClient == Init /\ [][NextClient]_vars

-----------------------------------------------------------------------------
(* Properties of the client page (SpecClient)                              *)

\* the page is at rest: nothing is being loaded, no load is scheduled and
\* every state update has been rendered with its effects
AtRest ==
    /\ page.mounted
    /\ page.selectorsReady
    /\ page.debounceTimeout = << >>
    /\ page.inflight = << >>
    /\ page.queue = << >>
    /\ page.pending = << >>
    /\ ~page.loading

\* C21: after a category change, under every order of the answers, when no
\* request is in flight, no load is scheduled and loading is false, every
\* record the page shows was returned by a request made for the category
\* that is selected now.
StaleResponseDropped ==
    AtRest =>
        \A i \in 1..Len(page.videos) :
            page.videos[i].category = page.categorySelection

\* the requests sent for selection e, in the order in which they were sent
IssuedFor(e) == SelectSeq(page.issued, LAMBDA r : r.epoch = e)

\* C22: for every category selection the requests are for the offsets 0, 25,
\* 50, ... in this order, each once; a request at an offset above 0 is sent
\* only after the page at offset 0 of the selection has been loaded, while
\* hasMore is true and nothing is in flight; and the list shown is made of
\* the answers in the order of their offsets.
PageSequence ==
    /\ \A e \in 0..page.epoch :
          \A j \in 1..Len(IssuedFor(e)) :
              /\ IssuedFor(e)[j].start = (j - 1) * PageSize
              /\ IssuedFor(e)[j].start > 0 =>
                    /\ IssuedFor(e)[j].firstLoaded
                    /\ IssuedFor(e)[j].hasMore
                    /\ ~IssuedFor(e)[j].busy
    /\ \A i, j \in 1..Len(page.videos) :
          i < j => page.videos[i].start <= page.videos[j].start

=============================================================================
